---- MODULE Spec2Model ----
(***************************************************************************)
(* Model of the octavia-perf-test telemetry core:                          *)
(*   - CollectionScheduler (collectors/aggregator.py): one polling thread  *)
(*     per registered collector, a shared stop event, start() and stop()   *)
(*   - MetricsStorage (collectors/storage.py): sqlite tables written in    *)
(*     per-call transactions and read back ordered by timestamp text       *)
(*   - TestOrchestrator.run (bin/run-test.py): the run's life cycle        *)
(*                                                                         *)
(* Time is a discrete clock `now`; one unit is half a second, so that      *)
(* datetime.isoformat() has both of its shapes (with and without the       *)
(* fractional part).                                                       *)
(***************************************************************************)
EXTENDS Integers, Sequences, FiniteSets, TLC

\* ------------------------------------------------------------------ bounds
MaxThreads  == 2    \* thread objects ever created by start()
MaxTime     == 2    \* the clock stops advancing here
MaxRows     == 2    \* rows a table holds before producers stop succeeding
MaxBatch    == 2    \* rows of one store_haproxy_stats call (len(raw_stats))
MaxInterval == 2    \* collection interval given to add_collector
MaxTimeout  == 1    \* timeout given to stop()
MaxCalls    == 3    \* store_* calls issued against the store
MaxRuns     == 2    \* test runs whose samples share the tables
StoreEpoch  == 18   \* clock value the store model starts at (second 9)
MaxCounter  == 2    \* largest counter value of a stats row
MaxAggTime  == 3    \* the clock of the aggregator model stops here
MaxBackends == 2    \* backend hosts listed in the configuration

VARIABLES
    \* CollectionScheduler
    collectors,     \* _collectors: sequence of [name, interval] in dict order
    stop_event,     \* _stop_event
    threads,        \* _threads: thread ids in the order start() appended them
    thr,            \* every thread object ever started: id -> its frame
    main,           \* the caller of start()/stop(): where it is inside stop()
    \* history of the scheduler, read by the properties only
    hist,           \* per thread: what it did since the stop event was set
    \* clock and store
    now,            \* wall clock (datetime.utcnow / time.time)
    rows,           \* committed sample rows, in insertion (rowid) order
    \* MetricsStorage calls in flight
    calls,          \* store_* invocations: id -> transaction state
    \* TestOrchestrator.run
    orch,           \* the orchestrator's frame and the test_runs row
    \* MetricsAggregator
    agg,            \* the aggregator's slot, its last result, its last rate call
    \* BottleneckDetector
    det,            \* the detector's inputs, findings and summary
    \* MetricsStorage, the whole database
    db,             \* the test_runs table and the last operation's result
    \* SSH-based collectors
    col             \* per collector: its _ssh_client, its source, its collect()

vars == <<collectors, stop_event, threads, thr, main, hist,
          now, rows, calls, orch, agg, det, db, col>>

\* ------------------------------------------------------------- small helpers
Max(a, b) == IF a >= b THEN a ELSE b

Min(a, b) == IF a <= b THEN a ELSE b

CollectorNames == {"haproxy", "amphora_api"}

ThreadIds == 1..MaxThreads

\* The run the scheduler was constructed for (CollectionScheduler.run_id).
SchedRun == 1

\* ------------------------------------------------------------------- rows
\* One sample row: its run, its source, its timestamp (clock value at the top
\* of store_*), the store_* call that inserted it and its index in the batch.
Row(run, src, ts, call, idx) ==
    [run |-> run, src |-> src, ts |-> ts, call |-> call, idx |-> idx]

\* The k INSERTs of one call, in order.
Batch(run, src, ts, call, k) ==
    [i \in 1..k |-> Row(run, src, ts, call, i)]

\* ============================================================== scheduler
\* A thread object that start() has not created yet.
NoThread ==
    [name |-> "", interval |-> 0, pc |-> "unborn", k |-> 0,
     start_time |-> 0, ts |-> 0, wake |-> 0]

\* What a thread did since the stop event was last set (collects, stores),
\* how the collect() of its latest tick ended, whether a store callback of
\* the thread has raised, and whether set() has notified the wait the thread
\* is in (Event.wait returns once notified, also when the flag has been
\* cleared again by then).
NoHist ==
    [collects |-> 0, stores |-> 0, last |-> "none", store_failed |-> FALSE,
     woken |-> FALSE]

Alive(t) == thr[t].pc \notin {"unborn", "done"}

Started == {t \in ThreadIds : thr[t].pc # "unborn"}

\* Counters of the history saturate at 2: the properties only ask "at most one".
Bump(n, cond) == IF cond THEN Min(n + 1, 2) ELSE n

\* Rows one successful collect() of this collector hands to its store callback:
\* store_haproxy writes one row per entry of raw_stats, the system-metrics
\* callbacks write one row.
BatchSizes(name) == IF name = "haproxy" THEN 0..MaxBatch ELSE {1}

\* Rows that transactions already under way will insert.
Pending == LET P[t \in 0..MaxThreads] ==
                 IF t = 0 THEN 0
                 ELSE P[t - 1] + (IF thr[t].pc = "txn" THEN thr[t].k ELSE 0)
           IN P[MaxThreads]

\* add_collector: a dict assignment, so a known name keeps its position and
\* gets the new configuration.
Position(name) ==
    IF \E i \in 1..Len(collectors) : collectors[i].name = name
    THEN CHOOSE i \in 1..Len(collectors) : collectors[i].name = name
    ELSE 0

Registered == {collectors[i].name : i \in 1..Len(collectors)}

AddCollector(name, interval) ==
    /\ main.pc = "idle"
    /\ collectors' =
         IF Position(name) = 0
         THEN Append(collectors, [name |-> name, interval |-> interval])
         ELSE [collectors EXCEPT ![Position(name)].interval = interval]
    /\ UNCHANGED <<db, col, agg, det, stop_event, threads, thr, main, hist,
                   now, rows, calls, orch>>

\* start(): clear the event, then one new thread per registered collector,
\* appended to _threads. Nothing looks at the threads already there. A new
\* thread is at the top of its loop: a wait that is already over.
Start ==
    /\ main.pc = "idle"
    /\ Cardinality(Started) + Len(collectors) <= MaxThreads
    /\ stop_event' = FALSE
    /\ LET base == Cardinality(Started)
           n == Len(collectors)
       IN /\ thr' = [t \in ThreadIds |->
                       IF t > base /\ t <= base + n
                       THEN [NoThread EXCEPT !.name = collectors[t - base].name,
                                             !.interval = collectors[t - base].interval,
                                             !.pc = "sleep", !.wake = now]
                       ELSE thr[t]]
          /\ threads' = threads \o [i \in 1..n |-> base + i]
    /\ hist' = [t \in ThreadIds |-> [hist[t] EXCEPT !.collects = 0, !.stores = 0]]
    /\ UNCHANGED <<db, col, agg, det, collectors, main, now, rows, calls, orch>>

\* ---- _collection_loop, one thread
\* `while not self._stop_event.is_set()`
LoopConditionAlways == TRUE

LoopCondition == ~stop_event

\* Each thread runs its own loop: nothing outside its frame gates its steps.
RunnableSerial(t) ==
    \A u \in ThreadIds \ {t} : thr[u].pc \notin {"collect", "txn"}

Runnable(t) == TRUE

\* The store callbacks of run-test.py: `if 'error' not in data`.
StoreGuardAny(data) == TRUE

StoreGuard(data) == data # "error"

\* End of the try body: sleep for what is left of the interval.
SleepNormal(f) ==
    [f EXCEPT !.pc = "sleep", !.k = 0, !.ts = 0, !.start_time = 0,
              !.wake = now + Max(0, f.interval - (now - f.start_time))]

\* The except branch: log, then wait a whole interval.
OnExceptionDie(f) ==
    [f EXCEPT !.pc = "done", !.k = 0, !.ts = 0, !.start_time = 0]

OnException(f) ==
    [f EXCEPT !.pc = "sleep", !.k = 0, !.ts = 0, !.start_time = 0,
              !.wake = now + f.interval]

\* store_func(data) is entered: with a payload the callback calls store_*,
\* which reads the clock and opens its transaction of k INSERTs; with an
\* error payload the callback returns at once and the tick is over.
EnterStore(f, data, k) ==
    IF StoreGuard(data)
    THEN [f EXCEPT !.pc = "txn", !.ts = now, !.k = k]
    ELSE SleepNormal(f)

\* _stop_event.wait(timeout) returns: the event is set, set() has notified the
\* waiting thread, or the time is over.
WaitOverTimerOnly(t) == now >= thr[t].wake

WaitOver(t) == stop_event \/ hist[t].woken \/ now >= thr[t].wake

\* _stop_event.wait(...) returns and the loop condition is evaluated: leave,
\* or take start_time and call collect().
LoopCheck(t) ==
    /\ thr[t].pc = "sleep"
    /\ Runnable(t)
    /\ WaitOver(t)
    /\ thr' = [thr EXCEPT ![t] =
                 IF LoopCondition
                 THEN [@ EXCEPT !.pc = "collect", !.start_time = now, !.wake = 0]
                 ELSE [@ EXCEPT !.pc = "done", !.wake = 0]]
    /\ hist' = [hist EXCEPT ![t].woken = FALSE]
    /\ UNCHANGED <<db, col, agg, det, collectors, stop_event, threads, main,
                   now, rows, calls, orch>>

\* collector.collect() returns a payload, which goes to the store callback.
CollectOk(t) ==
    /\ thr[t].pc = "collect"
    /\ Runnable(t)
    /\ \E k \in BatchSizes(thr[t].name) :
         /\ Len(rows) + Pending + k <= MaxRows
         /\ thr' = [thr EXCEPT ![t] = EnterStore(@, "ok", k)]
    /\ hist' = [hist EXCEPT ![t].collects = Bump(@, stop_event), ![t].last = "ok"]
    /\ UNCHANGED <<db, col, agg, det, collectors, stop_event, threads, main,
                   now, rows, calls, orch>>

\* collector.collect() returns {'error': reason}, which goes to the store
\* callback as well.
CollectError(t) ==
    /\ thr[t].pc = "collect"
    /\ Runnable(t)
    /\ thr' = [thr EXCEPT ![t] = EnterStore(@, "error", 1)]
    /\ hist' = [hist EXCEPT ![t].collects = Bump(@, stop_event),
                            ![t].stores = Bump(@, stop_event /\ ~StoreGuard("error")),
                            ![t].last = "error"]
    /\ UNCHANGED <<db, col, agg, det, collectors, stop_event, threads, main,
                   now, rows, calls, orch>>

\* collector.collect() raises.
CollectRaise(t) ==
    /\ thr[t].pc = "collect"
    /\ Runnable(t)
    /\ thr' = [thr EXCEPT ![t] = OnException(@)]
    /\ hist' = [hist EXCEPT ![t].collects = Bump(@, stop_event), ![t].last = "raised"]
    /\ UNCHANGED <<db, col, agg, det, collectors, stop_event, threads, main,
                   now, rows, calls, orch>>

\* The transaction of store_* commits: its rows become visible together, the
\* callback returns and the thread sleeps.
StoreCommit(t) ==
    /\ thr[t].pc = "txn"
    /\ Runnable(t)
    /\ rows' = rows \o Batch(SchedRun, thr[t].name, thr[t].ts, 0, thr[t].k)
    /\ thr' = [thr EXCEPT ![t] = SleepNormal(@)]
    /\ hist' = [hist EXCEPT ![t].stores = Bump(@, stop_event)]
    /\ UNCHANGED <<db, col, agg, det, collectors, stop_event, threads, main,
                   now, calls, orch>>

\* The transaction fails (schema or write error): nothing is committed and the
\* exception reaches the loop's except branch.
StoreRaise(t) ==
    /\ thr[t].pc = "txn"
    /\ Runnable(t)
    /\ thr' = [thr EXCEPT ![t] = OnException(@)]
    /\ hist' = [hist EXCEPT ![t].stores = Bump(@, stop_event),
                            ![t].last = "storefail", ![t].store_failed = TRUE]
    /\ UNCHANGED <<db, col, agg, det, collectors, stop_event, threads, main,
                   now, rows, calls, orch>>

UnitStep(t) ==
    \/ LoopCheck(t)
    \/ CollectOk(t)
    \/ CollectError(t)
    \/ CollectRaise(t)
    \/ StoreCommit(t)
    \/ StoreRaise(t)

\* ---- stop(timeout), run by the caller
Idle == [pc |-> "idle", idx |-> 0, deadline |-> 0, since |-> 0, timeout |-> 0]

StopBegin(timeout) ==
    /\ main.pc = "idle"
    /\ stop_event' = TRUE
    /\ main' = [pc |-> "joining", idx |-> 1, deadline |-> now + timeout,
                since |-> now, timeout |-> timeout]
    /\ hist' = [t \in ThreadIds |->
                 [hist[t] EXCEPT !.woken = thr[t].pc = "sleep" /\ now < thr[t].wake]]
    /\ UNCHANGED <<db, col, agg, det, collectors, threads, thr, now, rows, calls, orch>>

\* thread.join(timeout=timeout) returns: the thread ended, or the timeout of
\* this join ran out (then the thread is only reported, and left running).
JoinReturn ==
    /\ main.pc = "joining"
    /\ main.idx <= Len(threads)
    /\ ~Alive(threads[main.idx]) \/ now >= main.deadline
    /\ main' = [main EXCEPT !.idx = @ + 1, !.deadline = now + main.timeout]
    /\ UNCHANGED <<db, col, agg, det, collectors, stop_event, threads, thr, hist,
                   now, rows, calls, orch>>

StopReturn ==
    /\ main.pc = "joining"
    /\ main.idx > Len(threads)
    /\ threads' = <<>>
    /\ main' = Idle
    /\ UNCHANGED <<db, col, agg, det, collectors, stop_event, thr, hist, now, rows, calls, orch>>

\* ---- the clock. A wait whose time is over, or whose event is set, returns
\* before the clock moves on; so does a join.
Tick ==
    /\ now < MaxTime
    /\ \A t \in ThreadIds : thr[t].pc = "sleep" => ~WaitOver(t)
    /\ main.pc = "joining" =>
         /\ main.idx <= Len(threads)
         /\ Alive(threads[main.idx])
         /\ now < main.deadline
    /\ now' = now + 1
    /\ UNCHANGED <<db, col, agg, det, collectors, stop_event, threads, thr, main, hist,
                   rows, calls, orch>>

NoCalls == [c \in 1..MaxCalls |-> [st |-> "idle", run |-> 0, src |-> "", ts |-> 0, k |-> 0, done |-> 0]]

NoConfig == [haproxy |-> "disabled", amphora_api |-> "disabled", backends |-> <<>>]

NoOrch ==
    [pc |-> "off", storage |-> FALSE, run_id |-> 0, scheduler |-> "none",
     success |-> FALSE, created |-> FALSE, status |-> "none", end_time |-> 0,
     result |-> "none", config |-> NoConfig, setup |-> "pending",
     registered |-> {}, started |-> {}]

\* An empty dict.
EmptyMap == [x \in {} |-> 0]

\* MetricsAggregator.__init__: no previous counters, no previous timestamp
\* (None is read through its truth value only, as the empty dict and 0 are).
\* prev_src, out and call are history: the source whose sample fills the
\* slot, the last aggregate_haproxy_stats result, the last calculate_rates
\* call.
NoOut ==
    [src |-> "", sample |-> <<>>, rates |-> EmptyMap,
     saturation |-> <<0, 1>>, error_rate |-> <<0, 1>>,
     used_prev |-> FALSE, prev_src |-> ""]

NoRateCall ==
    [st |-> "none", current |-> EmptyMap, previous |-> EmptyMap,
     interval |-> 0, result |-> EmptyMap]

NoAgg ==
    [prev_stats |-> EmptyMap, prev_timestamp |-> 0, prev_src |-> "",
     out |-> NoOut, call |-> NoRateCall]

\* None passed for a list argument.
NoneList == [none |-> TRUE, rows |-> <<>>]

\* An empty database, on which nothing was called yet.
NoDb == [test_runs |-> <<>>, op |-> [name |-> "none", run_id |-> 0, result |-> <<>>]]

\* HAProxyStatsCollector / SystemMetricsCollector after __init__: no client
\* (_ssh_client = None), no collect() under way; the source is reachable.
NewCollector ==
    [client |-> "none", pc |-> "idle", up |-> TRUE, up_all |-> FALSE,
     connected |-> FALSE, last |-> "none", up_fails |-> 0]

\* The collectors that work over SSH.
SshCollectors == {"haproxy", "system"}

NoCol == [c \in SshCollectors |-> NewCollector]

\* get_summary() of no findings.
NoSummary ==
    [total_bottlenecks |-> 0, by_type |-> EmptyMap, by_severity |-> EmptyMap,
     recommendations |-> <<>>]

\* BottleneckDetector.__init__: no findings. The arguments of analyze(), the
\* findings in detection order and the last summary are kept beside them.
NoDet ==
    [pc |-> "off", haproxy_stats |-> NoneList, system_metrics |-> NoneList,
     locust_stats |-> NoneList, analyzed |-> FALSE, summarized |-> FALSE,
     detected |-> <<>>, bottlenecks |-> <<>>, summary |-> NoSummary]

InitSched ==
    /\ collectors = <<>>
    /\ db = NoDb
    /\ col = NoCol
    /\ stop_event = FALSE
    /\ threads = <<>>
    /\ thr = [t \in ThreadIds |-> NoThread]
    /\ main = Idle
    /\ hist = [t \in ThreadIds |-> NoHist]
    /\ now = 0
    /\ rows = <<>>
    /\ calls = NoCalls
    /\ orch = NoOrch
    /\ agg = NoAgg
    /\ det = NoDet

NextSched ==
    \/ \E name \in CollectorNames \ Registered, interval \in 1..MaxInterval :
         AddCollector(name, interval)
    \/ Start
    \/ \E t \in ThreadIds : UnitStep(t)
    \/ \E timeout \in 1..MaxTimeout : StopBegin(timeout)
    \/ JoinReturn
    \/ StopReturn
    \/ Tick

SpecSched == InitSched /\ [][NextSched]_vars

\* ===================================================== scheduler properties
\* A thread that is not waiting for its timer.
Ready(t) ==
    \/ thr[t].pc \in {"collect", "txn"}
    \/ thr[t].pc = "sleep" /\ WaitOver(t)

C2_FailedTickWritesNothing ==
    [][\A t \in ThreadIds :
         /\ (thr[t].pc = "collect" /\ thr'[t] # thr[t]
               /\ hist'[t].last \in {"error", "raised"}) =>
              (rows' = rows /\ thr'[t].pc = "sleep")
         /\ (thr[t].pc = "sleep" /\ thr'[t] # thr[t]
               /\ hist[t].last \in {"error", "raised"}) =>
              (rows' = rows /\
               thr'[t].pc = IF stop_event THEN "done" ELSE "collect")]_vars

\* A thread is inside collect() again after a tick that failed, and nothing
\* has been stored.
C2_Witness ==
    \E t \in ThreadIds :
        thr[t].pc = "collect" /\ hist[t].last \in {"error", "raised"} /\ rows = <<>>

\* C3: stop(timeout) returns no later than `timeout` after it was called.
C3_StopWithinTimeout ==
    (main.pc = "joining" /\ main.idx > Len(threads)) =>
        now - main.since <= main.timeout

\* C4: once the stop event is set (and until start() clears it), a thread
\* completes at most one more collect() and at most one more store callback,
\* and after that collect() it is never inside collect() again.
C4_CooperativeCancellation ==
    \A t \in ThreadIds :
        /\ hist[t].collects <= 1
        /\ hist[t].stores <= 1
        /\ (stop_event /\ hist[t].collects = 1) => thr[t].pc # "collect"

\* stop() has returned on its timeout while a thread, which finished its
\* collect() after the event was set, still has its store callback to finish.
C4_Witness ==
    /\ stop_event
    /\ main.pc = "idle"
    /\ \E t \in ThreadIds : thr[t].pc = "txn" /\ hist[t].collects = 1

\* C10: within one (run, source) pair the rows' insertion order agrees with
\* their timestamp order.
C10_PerSourceChronological ==
    \A i, j \in 1..Len(rows) :
        (i < j /\ rows[i].run = rows[j].run /\ rows[i].src = rows[j].src) =>
            rows[i].ts <= rows[j].ts

\* ================================================================== store
\* MetricsStorage. Every store_* call reads the clock, opens its own
\* connection (_get_connection), executes its INSERTs and commits when the
\* `with` body ends normally; the connection is closed in `finally`, which
\* discards a transaction that was not committed.
CallIds == 1..MaxCalls

Runs == 1..MaxRuns

Sources == CollectorNames

\* The table a source's callback writes: store_haproxy -> haproxy_stats,
\* store_amphora and store_backend -> system_metrics.
TableOf(src) == IF src = "haproxy" THEN "haproxy_stats" ELSE "system_metrics"

NoCall == [st |-> "idle", run |-> 0, src |-> "", ts |-> 0, k |-> 0, done |-> 0]

\* The call whose transaction holds the database's write lock: the one with
\* an uncommitted INSERT.
Writers == {c \in CallIds : calls[c].st = "open" /\ calls[c].done > 0}

\* store_haproxy_stats / store_system_metrics is entered:
\* `timestamp = datetime.utcnow().isoformat()`, then the connection.
CallStore(c, run, src, k) ==
    /\ calls[c].st = "idle"
    /\ calls' = [calls EXCEPT ![c] =
                   [st |-> "open", run |-> run, src |-> src, ts |-> now,
                    k |-> k, done |-> 0]]
    /\ UNCHANGED <<db, col, agg, det, collectors, stop_event, threads, thr, main, hist, now, rows, orch>>

\* cursor.execute(INSERT ...): one more uncommitted row. The engine lets one
\* transaction write at a time.
Insert(c) ==
    /\ calls[c].st = "open"
    /\ calls[c].done < calls[c].k
    /\ Writers \subseteq {c}
    /\ calls' = [calls EXCEPT ![c].done = @ + 1]
    /\ UNCHANGED <<db, col, agg, det, collectors, stop_event, threads, thr, main, hist, now, rows, orch>>

\* What the table holds after a call that ended in an exception: conn.commit()
\* is skipped, conn.close() rolls the transaction back.
AfterFailureCommitted(tbl, c) ==
    tbl \o Batch(calls[c].run, calls[c].src, calls[c].ts, c, calls[c].done)

AfterFailure(tbl, c) == tbl

\* What the table holds after conn.commit(): the call's rows, appended.
AfterCommitReplacing(tbl, b) ==
    SelectSeq(tbl, LAMBDA r : \A i \in 1..Len(b) : ~(r.run = b[i].run /\ r.ts = b[i].ts))
      \o b

AfterCommit(tbl, b) == tbl \o b

\* An execute raises (bad value, disk error, database locked past the busy
\* timeout), or the call is abandoned before its commit.
Fail(c) ==
    /\ calls[c].st = "open"
    /\ rows' = AfterFailure(rows, c)
    /\ calls' = [calls EXCEPT ![c].st = "failed"]
    /\ UNCHANGED <<db, col, agg, det, collectors, stop_event, threads, thr, main, hist, now, orch>>

\* The `with` body ended: conn.commit(), conn.close(), the call returns.
Commit(c) ==
    /\ calls[c].st = "open"
    /\ calls[c].done = calls[c].k
    /\ rows' = AfterCommit(rows, Batch(calls[c].run, calls[c].src, calls[c].ts,
                                       c, calls[c].k))
    /\ calls' = [calls EXCEPT ![c].st = "returned"]
    /\ UNCHANGED <<db, col, agg, det, collectors, stop_event, threads, thr, main, hist, now, orch>>

\* The clock, for as long as a call is still to read it.
TickStore ==
    /\ now < StoreEpoch + MaxTime
    /\ \E c \in CallIds : calls[c].st = "idle"
    /\ now' = now + 1
    /\ UNCHANGED <<db, col, agg, det, collectors, stop_event, threads, thr, main, hist, rows, calls, orch>>

\* ---- reading back
\* datetime.isoformat() of the clock value, seconds and fraction only (the
\* date, hour and minute are the same for all): two digits of seconds, then
\* '.' and the fraction unless the fraction is zero. Characters are their codes.
Digit(d) == 48 + d

IsoFormat(t) ==
    LET sec == t \div 2
        frac == t % 2
    IN <<Digit(sec \div 10), Digit(sec % 10)>>
         \o (IF frac = 0 THEN <<>> ELSE <<46, Digit(5)>>)

\* TEXT comparison of sqlite (BINARY collation): bytewise, a proper prefix first.
TextLeq(a, b) ==
    LET n == Min(Len(a), Len(b))
        D == {i \in 1..n : a[i] # b[i]}
    IN IF D = {} THEN Len(a) <= Len(b)
       ELSE LET i == CHOOSE x \in D : \A y \in D : x <= y IN a[i] < b[i]

\* ORDER BY timestamp: ascending on the stored text, rows of equal text in
\* rowid order.
OrderByRowid(seq) == seq

OrderByTimestamp(seq) ==
    LET Ins(sorted, r) ==
          LET p == Cardinality({i \in 1..Len(sorted) :
                                   TextLeq(IsoFormat(sorted[i].ts), IsoFormat(r.ts))})
          IN SubSeq(sorted, 1, p) \o <<r>> \o SubSeq(sorted, p + 1, Len(sorted))
        S[n \in 0..Len(seq)] == IF n = 0 THEN <<>> ELSE Ins(S[n - 1], seq[n])
    IN S[Len(seq)]

\* get_haproxy_stats(run_id) / get_system_metrics(run_id): SELECT * FROM
\* <table> WHERE run_id = ? ORDER BY timestamp.
GetSamples(table, run_id) ==
    OrderByTimestamp(SelectSeq(rows, LAMBDA r : TableOf(r.src) = table /\ r.run = run_id))

Tables == {"haproxy_stats", "system_metrics"}

InitStore ==
    /\ collectors = <<>>
    /\ db = NoDb
    /\ col = NoCol
    /\ stop_event = FALSE
    /\ threads = <<>>
    /\ thr = [t \in ThreadIds |-> NoThread]
    /\ main = Idle
    /\ hist = [t \in ThreadIds |-> NoHist]
    /\ now = StoreEpoch
    /\ rows = <<>>
    /\ calls = [c \in CallIds |-> NoCall]
    /\ orch = NoOrch
    /\ agg = NoAgg
    /\ det = NoDet

NextStore ==
    \/ \E c \in CallIds, run \in Runs, src \in Sources :
         \E k \in BatchSizes(src) :
            /\ \A d \in CallIds : d < c => calls[d].st # "idle"
            /\ CallStore(c, run, src, k)
    \/ \E c \in CallIds : Insert(c)
    \/ \E c \in CallIds : Fail(c)
    \/ \E c \in CallIds : Commit(c)
    \/ TickStore

SpecStore == InitStore /\ [][NextStore]_vars

\* ========================================================= store properties
Returned == {c \in CallIds : calls[c].st = "returned"}

\* Indexes of `seq` that hold row i of call c.
Places(seq, c, i) ==
    {p \in 1..Len(seq) :
        seq[p] = Row(calls[c].run, calls[c].src, calls[c].ts, c, i)}

SumK(S) ==
    LET F[n \in 0..MaxCalls] ==
          IF n = 0 THEN 0
          ELSE F[n - 1] + (IF n \in S THEN calls[n].k ELSE 0)
    IN F[MaxCalls]

\* C7: reading a table for a run returns each row of every successful write
\* of that run and table exactly once, nothing else, and in non-decreasing
\* order of the time the rows were stamped with.
C7_WriteReadRoundTrip ==
    \A table \in Tables, r \in Runs :
        LET got == GetSamples(table, r)
            W == {c \in Returned : calls[c].run = r /\ TableOf(calls[c].src) = table}
        IN /\ Len(got) = SumK(W)
           /\ \A c \in W : \A i \in 1..calls[c].k : Cardinality(Places(got, c, i)) = 1
           /\ \A p \in 1..Len(got) : got[p].run = r
           /\ \A p, q \in 1..Len(got) : p < q => got[p].ts <= got[q].ts

\* Two successful calls wrote the same table of the same run, the later-stamped
\* one first, and a call for another run wrote the table too.
C7_Witness ==
    \E c, d, e \in Returned :
        /\ calls[c].run = calls[d].run /\ calls[e].run # calls[c].run
        /\ TableOf(calls[c].src) = TableOf(calls[d].src)
        /\ TableOf(calls[e].src) = TableOf(calls[c].src)
        /\ calls[c].ts < calls[d].ts
        /\ \E p, q \in 1..Len(rows) : p < q /\ rows[p].call = d /\ rows[q].call = c

\* C8: of the rows of one store_* call a reader sees all or none.
C8_WriteIsAtomic ==
    \A c \in CallIds :
        LET seen == Cardinality({p \in 1..Len(rows) : rows[p].call = c})
        IN /\ seen \in {0, calls[c].k}
           /\ seen > 0 => calls[c].st = "returned"

\* A call failed after the first of its two INSERTs, another call of two rows
\* committed.
C8_Witness ==
    \E c, d \in CallIds :
        /\ calls[c].st = "failed" /\ calls[c].k = 2 /\ calls[c].done = 1
        /\ calls[d].st = "returned" /\ calls[d].k = 2

\* C9: the table is exactly the batches of the calls that returned: each of
\* their rows once, as written, and no other row.
C9_ConcurrentWritersKeepAll ==
    /\ Len(rows) = SumK(Returned)
    /\ \A c \in Returned : \A i \in 1..calls[c].k : Cardinality(Places(rows, c, i)) = 1

\* Two calls were open at the same time, stamped at the same clock value for
\* the same run, and both have returned.
C9_Witness ==
    \E c, d \in Returned :
        /\ c < d
        /\ calls[c].ts = calls[d].ts /\ calls[c].run = calls[d].run
        /\ calls[c].src # calls[d].src
        /\ calls[c].k > 0 /\ calls[d].k > 0
        /\ \E p, q \in 1..Len(rows) : p < q /\ rows[p].call = d /\ rows[q].call = c

\* =========================================================== orchestrator
\* TestOrchestrator.run(). `orch` is the orchestrator's frame together with
\* the test_runs row its setup creates:
\*   pc        where run() is
\*   storage   self.storage is set
\*   run_id    self.run_id (0: None)
\*   scheduler self.scheduler: "none", "created", "started", "stopped"
\*   success   what run_locust() returned
\*   created   the test_runs row exists
\*   status, end_time   columns of that row (end_time 0: NULL)
\*   result    what run() gave its caller: "none", "true", "false", "raised"
\*   config    the 'collectors' section of the configuration file
\*   setup     how the collector setup ended: "pending", "done", or "raised"
\*             when a configuration entry made it raise
\*   registered, started   the names given to add_collector, and those whose
\*             units scheduler.start() launched
NewOrch == [NoOrch EXCEPT !.pc = "validate"]

\* collectors.haproxy_stats: complete, without amphora_ip, without lb_id, or
\* with enabled: false. collectors.amphora_api: complete, without amphora_ip,
\* or with enabled: false.
HaproxyConfigs == {"ok", "no_amphora_ip", "no_lb_id", "disabled"}

AmphoraConfigs == {"ok", "no_amphora_ip", "disabled"}

\* collectors.system_metrics.backends: the i-th entry has id "b<i>" or lacks
\* the key (""), and has the key ip or lacks it.
BackendIds == <<"b1", "b2", "b3">>

BackendConfigs(i) == {[ip |-> ip, id |-> id] : ip \in BOOLEAN, id \in {"", BackendIds[i]}}

BackendLists ==
    UNION {{b \in [1..n -> UNION {BackendConfigs(i) : i \in 1..n}] :
                \A i \in 1..n : b[i] \in BackendConfigs(i)} : n \in 0..MaxBackends}

Configs ==
    {[haproxy |-> h, amphora_api |-> a, backends |-> b] :
        h \in HaproxyConfigs, a \in AmphoraConfigs, b \in BackendLists}

\* name=f"system_{backend['id']}"
BackendName(backend) == "system_" \o backend.id

\* `for backend in backends:` from the i-th entry on: backend['ip'] and
\* backend['id'] raise KeyError when the key is missing, which ends the loop
\* and setup_collectors.
RECURSIVE RegisterBackends(_, _, _)
RegisterBackends(backends, i, names) ==
    IF i > Len(backends) THEN [registered |-> names, raised |-> FALSE]
    ELSE IF ~backends[i].ip \/ backends[i].id = ""
    THEN [registered |-> names, raised |-> TRUE]
    ELSE RegisterBackends(backends, i + 1, names \cup {BackendName(backends[i])})

\* The collector part of setup_collectors: the stats collector is added when
\* it is enabled and has amphora_ip and lb_id, the API collector when it is
\* enabled and has amphora_ip, then the backends in order.
SetupCollectors(config) ==
    RegisterBackends(config.backends, 1,
                     {n \in {"haproxy", "amphora_api"} : config[n] = "ok"})

\* The statements of the try body, in order.
TryPcs == {"validate", "open", "create", "assign", "configure", "start",
           "locust", "stop", "complete", "report"}

OrchUnchanged ==
    UNCHANGED <<db, col, agg, det, collectors, stop_event, threads, thr, main, hist, now, rows, calls>>

Goto(pc) == orch' = [orch EXCEPT !.pc = pc] /\ OrchUnchanged

\* complete_test_run(run_id, status): UPDATE test_runs SET end_time = ?,
\* status = ? WHERE id = ?.
CompleteTestRun(o, status) == [o EXCEPT !.status = status, !.end_time = now]

\* `if self.storage and self.run_id:` of the try body and of both handlers.
HasRun(o) == o.storage /\ o.run_id # 0

\* validate_environment()
ValidateOk == orch.pc = "validate" /\ Goto("open")

ValidateFail ==
    /\ orch.pc = "validate"
    /\ orch' = [orch EXCEPT !.pc = "finally", !.result = "false"]
    /\ OrchUnchanged

\* setup_collectors: self.storage = MetricsStorage(db_path)
OpenStorage ==
    /\ orch.pc = "open"
    /\ orch' = [orch EXCEPT !.pc = "create", !.storage = TRUE]
    /\ OrchUnchanged

\* storage.create_test_run(...): the INSERT is committed; status defaults to
\* 'running', end_time to NULL.
CreateTestRun ==
    /\ orch.pc = "create"
    /\ orch' = [orch EXCEPT !.pc = "assign", !.created = TRUE, !.status = "running"]
    /\ OrchUnchanged

\* self.run_id = <the id create_test_run returned>
AssignRunId ==
    /\ orch.pc = "assign"
    /\ orch' = [orch EXCEPT !.pc = "configure", !.run_id = 1]
    /\ OrchUnchanged

\* The rest of setup_collectors: the scheduler and its collectors.
Configure ==
    /\ orch.pc = "configure"
    /\ LET done == SetupCollectors(orch.config)
       IN orch' = [orch EXCEPT !.pc = IF done.raised THEN "except" ELSE "start",
                               !.scheduler = "created",
                               !.setup = IF done.raised THEN "raised" ELSE "done",
                               !.registered = done.registered]
    /\ OrchUnchanged

\* scheduler.start()
StartCollectors ==
    /\ orch.pc = "start"
    /\ orch' = [orch EXCEPT !.pc = "locust", !.scheduler = "started",
                            !.started = orch.registered]
    /\ OrchUnchanged

\* run_locust() returns True or False: its try catches every Exception of
\* starting and watching the load generator.
RunLocust(success) ==
    /\ orch.pc = "locust"
    /\ orch' = [orch EXCEPT !.pc = "stop", !.success = success]
    /\ OrchUnchanged

\* scheduler.stop()
StopCollectors ==
    /\ orch.pc = "stop"
    /\ orch' = [orch EXCEPT !.pc = "complete", !.scheduler = "stopped"]
    /\ OrchUnchanged

\* `if self.storage and self.run_id: complete_test_run(run_id, status)`
UpdateStatus ==
    /\ orch.pc = "complete"
    /\ orch' = [(IF HasRun(orch)
                 THEN CompleteTestRun(orch, IF orch.success THEN "completed" ELSE "failed")
                 ELSE orch) EXCEPT !.pc = "report"]
    /\ OrchUnchanged

\* generate_report() returns; run() returns success.
ReportOk ==
    /\ orch.pc = "report"
    /\ orch' = [orch EXCEPT !.pc = "finally",
                            !.result = IF orch.success THEN "true" ELSE "false"]
    /\ OrchUnchanged

\* A statement of the try body raises an Exception: opening the store,
\* creating the run, configuring a collector, run_locust before its own try
\* (locust_config['host'] of a configuration without a host, which
\* _load_config gives no default and validate_environment does not require),
\* updating the status, or generating the report.
RaiseException ==
    /\ orch.pc \in {"open", "create", "configure", "locust", "complete", "report"}
    /\ Goto("except")

\* KeyboardInterrupt arrives while the try body runs.
Interrupt ==
    /\ orch.pc \in TryPcs
    /\ Goto("interrupt")

\* except KeyboardInterrupt: stop the scheduler if there is one, then
\* complete_test_run(run_id, 'interrupted') if there is a run; return False.
HandleInterrupt ==
    /\ orch.pc = "interrupt"
    /\ orch' = [(IF HasRun(orch) THEN CompleteTestRun(orch, "interrupted") ELSE orch)
                  EXCEPT !.pc = "finally", !.result = "false",
                         !.scheduler = IF orch.scheduler = "none" THEN "none" ELSE "stopped"]
    /\ OrchUnchanged

\* except Exception: complete_test_run(run_id, 'error') if there is a run;
\* return False.
HandleException ==
    /\ orch.pc = "except"
    /\ orch' = [(IF HasRun(orch) THEN CompleteTestRun(orch, "error") ELSE orch)
                  EXCEPT !.pc = "finally", !.result = "false"]
    /\ OrchUnchanged

\* A handler itself fails (its complete_test_run raises, or a second
\* interrupt arrives): the exception leaves run().
HandlerRaises ==
    /\ orch.pc \in {"interrupt", "except"}
    /\ orch' = [orch EXCEPT !.pc = "finally", !.result = "raised"]
    /\ OrchUnchanged

\* finally: disconnect the collectors; run() is over.
Finally ==
    /\ orch.pc = "finally"
    /\ Goto("returned")

TickRun ==
    /\ now < MaxTime
    /\ orch.pc # "returned"
    /\ now' = now + 1
    /\ UNCHANGED <<db, col, agg, det, collectors, stop_event, threads, thr, main, hist, rows, calls, orch>>

InitRun ==
    /\ collectors = <<>>
    /\ db = NoDb
    /\ col = NoCol
    /\ stop_event = FALSE
    /\ threads = <<>>
    /\ thr = [t \in ThreadIds |-> NoThread]
    /\ main = Idle
    /\ hist = [t \in ThreadIds |-> NoHist]
    /\ now = 1
    /\ rows = <<>>
    /\ calls = NoCalls
    /\ \E config \in Configs : orch = [NewOrch EXCEPT !.config = config]
    /\ agg = NoAgg
    /\ det = NoDet

NextRun ==
    \/ ValidateOk
    \/ ValidateFail
    \/ OpenStorage
    \/ CreateTestRun
    \/ AssignRunId
    \/ Configure
    \/ StartCollectors
    \/ \E success \in BOOLEAN : RunLocust(success)
    \/ StopCollectors
    \/ UpdateStatus
    \/ ReportOk
    \/ RaiseException
    \/ Interrupt
    \/ HandleInterrupt
    \/ HandleException
    \/ HandlerRaises
    \/ Finally
    \/ TickRun

SpecRun == InitRun /\ [][NextRun]_vars

\* ================================================== orchestrator properties
TerminalStatuses == {"completed", "failed", "interrupted", "error"}

\* C5: once the run's status is something other than 'running', no later step
\* changes the status or the end time.
C5_StatusTerminalOnceSet ==
    [][orch.status \in TerminalStatuses =>
         (orch'.status = orch.status /\ orch'.end_time = orch.end_time)]_vars

\* C6: when run() has returned and the run's row was created, the row's status
\* is one of the terminal values.
C6_EveryRunEndsTerminal ==
    (orch.pc = "returned" /\ orch.result \in {"true", "false"} /\ orch.created) =>
        orch.status \in TerminalStatuses

\* ============================================================= aggregator
\* MetricsAggregator: calculate_rates and aggregate_haproxy_stats. Numbers
\* that the code computes by true division are kept as exact fractions
\* <<numerator, denominator>>.
AggFields == {"scur", "slim", "stot", "ereq"}

\* Sources whose samples a run's aggregator is fed.
AggSources == {"lb1", "lb2"}

\* f'{key}_per_sec'
PerSec(key) == key \o "_per_sec"

\* delta / interval_seconds
Rate(delta, interval_seconds) == <<delta, interval_seconds>>

\* `if delta >= 0:  # Handle counter resets`
DeltaEmittedAlways(delta) == TRUE

DeltaEmitted(delta) == delta >= 0

RECURSIVE RatesOf(_, _, _, _)
RatesOf(keys, current, previous, interval_seconds) ==
    IF keys = {} THEN EmptyMap
    ELSE LET key  == CHOOSE k \in keys : TRUE
             rest == RatesOf(keys \ {key}, current, previous, interval_seconds)
             delta == current[key] - previous[key]
         IN IF key \in DOMAIN previous /\ DeltaEmitted(delta)
            THEN (PerSec(key) :> Rate(delta, interval_seconds)) @@ rest
            ELSE rest

calculate_rates(current, previous, interval_seconds) ==
    IF interval_seconds <= 0 THEN EmptyMap
    ELSE RatesOf(DOMAIN current, current, previous, interval_seconds)

\* sum(int(s.get(f, 0) or 0) for s in <rows whose svname is svname>)
RECURSIVE SumField(_, _, _)
SumField(stats, svname, f) ==
    IF stats = <<>> THEN 0
    ELSE (IF Head(stats).svname = svname THEN Head(stats)[f] ELSE 0)
         + SumField(Tail(stats), svname, f)

\* `current`: the counters summed over the frontends.
Counters(stats) == [f \in AggFields |-> SumField(stats, "FRONTEND", f)]

\* numerator / denominator * 100, or 0 when the denominator is not positive.
Percent(numerator, denominator) ==
    IF denominator > 0 THEN <<numerator * 100, denominator>> ELSE <<0, 1>>

\* The counters the two ratios are computed from.
RatioCountersPrev(current, a) ==
    IF a.prev_timestamp # 0 THEN a.prev_stats ELSE current

RatioCounters(current, a) == current

\* `self._prev_haproxy_stats = current.copy()`: the slot takes the counters of
\* every call, whatever the call emitted.
StoredPreviousUnlessReset(current, a) ==
    IF /\ a.prev_stats # EmptyMap
       /\ \E f \in DOMAIN current : current[f] < a.prev_stats[f]
    THEN a.prev_stats
    ELSE current

StoredPrevious(current, a) == current

\* aggregate_haproxy_stats(stats), called with a sample of source src at
\* clock value `now`.
aggregate_haproxy_stats(a, src, stats) ==
    LET current  == Counters(stats)
        has_prev == a.prev_stats # EmptyMap /\ a.prev_timestamp # 0
        interval == now - a.prev_timestamp
        rates    == IF has_prev
                    THEN calculate_rates(current, a.prev_stats, interval)
                    ELSE EmptyMap
        c        == RatioCounters(current, a)
    IN [prev_stats |-> StoredPrevious(current, a), prev_timestamp |-> now,
        prev_src |-> src,
        out |-> [src |-> src, sample |-> stats, rates |-> rates,
                 saturation |-> Percent(c["scur"], c["slim"]),
                 error_rate |-> Percent(c["ereq"], c["stot"]),
                 used_prev |-> has_prev, prev_src |-> a.prev_src],
        call |-> IF has_prev
                 THEN [st |-> "done", current |-> current,
                       previous |-> a.prev_stats, interval |-> interval,
                       result |-> rates]
                 ELSE NoRateCall]

\* Raw rows of a `show stat` sample.
StatRow(svname, scur, slim, stot, ereq) ==
    [svname |-> svname, scur |-> scur, slim |-> slim, stot |-> stot, ereq |-> ereq]

FrontendRows ==
    {StatRow("FRONTEND", scur, slim, stot, ereq) :
        scur \in 0..1, slim \in {0, MaxCounter}, stot \in {0, MaxCounter}, ereq \in 0..1}

BackendRow == StatRow("BACKEND", 1, 1, 1, 1)

\* A sample: one frontend row, or a frontend row followed by a backend row
\* or by a second frontend.
AggSamples ==
    {<<r>> : r \in FrontendRows}
    \cup {<<StatRow("FRONTEND", 1, MaxCounter, MaxCounter, 1), BackendRow>>,
          <<StatRow("FRONTEND", 0, MaxCounter, 1, 0),
            StatRow("FRONTEND", 1, MaxCounter, 1, 1)>>}

\* Arguments of a direct calculate_rates call: dicts over two keys, either
\* of which may be missing, and an interval that may be zero or negative.
RateKeys == {"stot", "bin"}

RateDicts ==
    UNION {[K -> 0..MaxCounter] : K \in SUBSET RateKeys}

RateIntervals == (0 - 1)..MaxCounter

AggUnchanged ==
    UNCHANGED <<db, col, collectors, stop_event, threads, thr, main, hist, rows, calls,
                orch, det>>

\* A caller invokes calculate_rates with the arguments drawn at the start.
CalculateRates ==
    /\ agg.call.st = "pending"
    /\ agg' = [agg EXCEPT !.call.st = "done",
                          !.call.result = calculate_rates(agg.call.current,
                                                          agg.call.previous,
                                                          agg.call.interval)]
    /\ UNCHANGED now
    /\ AggUnchanged

\* A sample of one source is aggregated.
Aggregate(src, stats) ==
    /\ agg' = aggregate_haproxy_stats(agg, src, stats)
    /\ UNCHANGED now
    /\ AggUnchanged

TickAgg ==
    /\ now < MaxAggTime
    /\ now' = now + 1
    /\ UNCHANGED agg
    /\ AggUnchanged

InitAgg ==
    /\ collectors = <<>>
    /\ db = NoDb
    /\ col = NoCol
    /\ stop_event = FALSE
    /\ threads = <<>>
    /\ thr = [t \in ThreadIds |-> NoThread]
    /\ main = Idle
    /\ hist = [t \in ThreadIds |-> NoHist]
    /\ now = 1
    /\ rows = <<>>
    /\ calls = NoCalls
    /\ orch = NoOrch
    /\ det = NoDet
    /\ \E current \in RateDicts, previous \in RateDicts, interval \in RateIntervals :
         agg = [NoAgg EXCEPT !.call = [st |-> "pending", current |-> current,
                                       previous |-> previous, interval |-> interval,
                                       result |-> EmptyMap]]

NextAgg ==
    \/ CalculateRates
    \/ \E src \in AggSources, stats \in AggSamples : Aggregate(src, stats)
    \/ TickAgg

SpecAgg == InitAgg /\ [][NextAgg]_vars

\* ==================================================== aggregator properties
\* C11: a finished calculate_rates call has returned the empty map when the
\* interval is not positive; otherwise it has exactly one entry
\* '<f>_per_sec' = (current[f] - previous[f]) / interval for every field f of
\* both inputs whose delta is not negative, and no other entry; no rate is
\* negative.
C11_RatesExact ==
    agg.call.st = "done" =>
        LET c == agg.call
            emitted == {f \in DOMAIN c.current \cap DOMAIN c.previous :
                            c.current[f] - c.previous[f] >= 0}
        IN /\ c.interval <= 0 => c.result = EmptyMap
           /\ c.interval > 0 =>
                /\ DOMAIN c.result = {PerSec(f) : f \in emitted}
                /\ \A f \in emitted :
                     c.result[PerSec(f)] =
                         <<c.current[f] - c.previous[f], c.interval>>
           /\ \A k \in DOMAIN c.result : c.result[k][1] >= 0 /\ c.result[k][2] > 0

\* A call with a positive interval in which one field was reset (negative
\* delta), one advanced, and the call has returned.
C11_Witness ==
    /\ agg.call.st = "done"
    /\ agg.call.interval > 0
    /\ \E f \in DOMAIN agg.call.current \cap DOMAIN agg.call.previous :
         agg.call.current[f] < agg.call.previous[f]
    /\ \E f \in DOMAIN agg.call.current \cap DOMAIN agg.call.previous :
         agg.call.current[f] > agg.call.previous[f]
    /\ agg.call.result # EmptyMap

\* C12: the rates returned for a sample of a source are computed against the
\* previous sample of that same source.
C12_PreviousSlotPerSource ==
    agg.out.used_prev => agg.out.prev_src = agg.out.src

\* C13: the saturation and the error rate of a result are 0 when the limit
\* (the total) of the sample just passed is not positive and otherwise
\* scur/slim*100 (ereq/stot*100) of that sample, whatever was aggregated before.
C13_RatiosOfCurrentSample ==
    agg.out.src # "" =>
        LET c == Counters(agg.out.sample)
        IN /\ agg.out.saturation =
                IF c["slim"] <= 0 THEN <<0, 1>> ELSE <<c["scur"] * 100, c["slim"]>>
           /\ agg.out.error_rate =
                IF c["stot"] <= 0 THEN <<0, 1>> ELSE <<c["ereq"] * 100, c["stot"]>>

\* A second sample whose counters differ from those in the slot before it,
\* with a positive limit and a positive total.
C13_Witness ==
    /\ agg.out.used_prev
    /\ agg.call.st = "done"
    /\ agg.call.previous # agg.call.current
    /\ Counters(agg.out.sample)["slim"] > 0
    /\ Counters(agg.out.sample)["stot"] > 0
    /\ Counters(agg.out.sample)["ereq"] > 0

\* =============================================================== detector
\* BottleneckDetector.analyze and get_summary. A row is a dict (a function
\* from column names); a missing key stands for a missing or NULL column.
\* A list argument is [none, rows]: none for None, rows for the list.
SomeList(seq) == [none |-> FALSE, rows |-> seq]

\* The truth value of a list argument: `if haproxy_stats:`
Truthy(x) == ~x.none /\ x.rows # <<>>

\* row.get(key, default) or default
Get(row, key, default) ==
    IF key \in DOMAIN row /\ row[key] # 0 THEN row[key] ELSE default

\* Bottleneck(type, severity, description, evidence, recommendation,
\* affected_component); description and recommendation are kept by their
\* leading words.
Bottleneck(type, severity, description, evidence, recommendation, component) ==
    [type |-> type, severity |-> severity, description |-> description,
     evidence |-> evidence, recommendation |-> recommendation,
     affected_component |-> component]

CONNECTION_SATURATION_HIGH == 70

CONNECTION_SATURATION_CRITICAL == 90

QUEUE_WARNING_THRESHOLD == 10

QueueHighThreshold == 50

ERROR_RATE_WARNING == 1

ERROR_RATE_HIGH == 5

CPU_HIGH_THRESHOLD == 80

CPU_CRITICAL_THRESHOLD == 95

MEMORY_LOW_THRESHOLD == 10

MEMORY_CRITICAL_THRESHOLD == 5

FailureRateThreshold == 10

P99Threshold == 5000

TrendWindow == 10

\* (numerator / denominator) * 100 >= threshold, for denominator > 0
PercentAtLeastStrict(numerator, denominator, threshold) ==
    numerator * 100 > threshold * denominator

PercentAtLeast(numerator, denominator, threshold) ==
    numerator * 100 >= threshold * denominator

\* Connection limit analysis of the latest row.
SaturationFindings(latest) ==
    LET scur == Get(latest, "scur", 0)
        slim == Get(latest, "slim", 0)
        evidence == [current_connections |-> scur, max_connections |-> slim,
                     saturation_percent |-> <<scur * 100, slim>>]
    IN IF slim > 0 /\ PercentAtLeast(scur, slim, CONNECTION_SATURATION_CRITICAL)
       THEN <<Bottleneck("connection_limit", "critical",
                         "Connection limit nearly reached", evidence,
                         "Increase listener connection_limit in Octavia.",
                         "amphora/haproxy")>>
       ELSE IF slim > 0 /\ PercentAtLeast(scur, slim, CONNECTION_SATURATION_HIGH)
       THEN <<Bottleneck("connection_limit", "high",
                         "Connection limit approaching", evidence,
                         "Consider increasing connection_limit before it becomes critical.",
                         "amphora/haproxy")>>
       ELSE <<>>

\* `Severity.HIGH if qcur > 50 else Severity.MEDIUM`
QueueSeverityInclusive(qcur) == IF qcur >= QueueHighThreshold THEN "high" ELSE "medium"

QueueSeverity(qcur) == IF qcur > QueueHighThreshold THEN "high" ELSE "medium"

\* Queue analysis of the latest row.
QueueFindings(latest) ==
    LET qcur == Get(latest, "qcur", 0)
    IN IF qcur > QUEUE_WARNING_THRESHOLD
       THEN <<Bottleneck("backend", QueueSeverity(qcur), "Requests queuing",
                         [queue_current |-> qcur],
                         "Backend servers may be overloaded.",
                         "backend_servers")>>
       ELSE <<>>

\* Error rate analysis of the latest row.
ErrorRateFindings(latest) ==
    LET stot == Get(latest, "stot", 0)
        ereq == Get(latest, "ereq", 0)
        evidence == [total_requests |-> stot, errors |-> ereq,
                     error_rate_percent |-> <<ereq * 100, stot>>]
    IN IF stot > 0 /\ PercentAtLeast(ereq, stot, ERROR_RATE_HIGH)
       THEN <<Bottleneck("configuration", "high", "High error rate", evidence,
                         "Investigate error causes.", "amphora/haproxy")>>
       ELSE IF stot > 0 /\ PercentAtLeast(ereq, stot, ERROR_RATE_WARNING)
       THEN <<Bottleneck("configuration", "medium", "Elevated error rate", evidence,
                         "Monitor error rate and investigate causes.",
                         "amphora/haproxy")>>
       ELSE <<>>

\* stats[-10:]
LastN(seq, n) ==
    IF Len(seq) <= n THEN seq ELSE SubSeq(seq, Len(seq) - n + 1, Len(seq))

\* all(recent_scur[i] <= recent_scur[i+1] for i in range(len(recent_scur)-1))
NeverDecreasesStrict(recent) ==
    \A i \in 1..(Len(recent) - 1) : recent[i] < recent[i + 1]

NeverDecreases(recent) ==
    \A i \in 1..(Len(recent) - 1) : recent[i] <= recent[i + 1]

\* Trend analysis of the trailing rows.
TrendFindings(stats) ==
    LET window == LastN(stats, TrendWindow)
        recent_scur == [i \in 1..Len(window) |-> Get(window[i], "scur", 0)]
    IN IF Len(stats) >= TrendWindow /\ NeverDecreases(recent_scur)
       THEN <<Bottleneck("connection_limit", "medium",
                         "Connections continuously increasing",
                         [connection_trend |-> recent_scur],
                         "Connection count is growing steadily.",
                         "amphora/haproxy")>>
       ELSE <<>>

\* _analyze_haproxy(stats)
AnalyzeHaproxy(stats) ==
    IF stats = <<>> THEN <<>>
    ELSE LET latest == stats[Len(stats)]
         IN SaturationFindings(latest) \o QueueFindings(latest)
            \o ErrorRateFindings(latest) \o TrendFindings(stats)

\* 'amphora' in m.get('host_type', '').lower(), over the host types that
\* store_system_metrics is given.
HostTypes == {"amphora", "backend", "other"}

HostTypeOf(m) == IF "host_type" \in DOMAIN m THEN m["host_type"] ELSE ""

\* host_type.title()
Title(host_type) == IF host_type = "amphora" THEN "Amphora" ELSE "Backend"

\* The host type as it is written into a recommendation text.
HostTextGeneric(host_type) == "host"

HostText(host_type) == host_type

\* The CPU and memory analysis of _analyze_host_metrics(metrics, host_type).
\* The load is kept in hundredths.
CpuFindings(latest, host_type) ==
    LET cpu_count == Get(latest, "cpu_count", 1)
        load == Get(latest, "load_1", 0)
        evidence == [load_average |-> load, cpu_count |-> cpu_count,
                     saturation_percent |-> <<load, cpu_count>>]
    IN IF load >= CPU_CRITICAL_THRESHOLD * cpu_count
       THEN <<Bottleneck("cpu", "critical", Title(host_type) \o " CPU saturated",
                         evidence,
                         "Increase " \o HostText(host_type) \o " CPU capacity.",
                         host_type)>>
       ELSE IF load >= CPU_HIGH_THRESHOLD * cpu_count
       THEN <<Bottleneck("cpu", "high", Title(host_type) \o " CPU high", evidence,
                         "Monitor " \o HostText(host_type) \o " CPU closely.",
                         host_type)>>
       ELSE <<>>

\* (numerator / denominator) * 100 < threshold, for a positive denominator.
PercentBelowInclusive(numerator, denominator, threshold) ==
    numerator * 100 <= threshold * denominator

PercentBelow(numerator, denominator, threshold) ==
    numerator * 100 < threshold * denominator

\* A column that holds NULL comes back from the store as None, and
\* `latest.get(key, default) or default` treats None like a missing key: a
\* row without the key stands for both.
MemoryFindings(latest, host_type) ==
    LET mem_total == Get(latest, "mem_total", 1)
        mem_free == Get(latest, "mem_free", 0)
        evidence == [total_mb |-> mem_total \div 1024, free_mb |-> mem_free \div 1024,
                     free_percent |-> <<mem_free * 100, mem_total>>]
    IN IF PercentBelow(mem_free, mem_total, MEMORY_CRITICAL_THRESHOLD)
       THEN <<Bottleneck("memory", "critical", Title(host_type) \o " memory critical",
                         evidence,
                         "Increase " \o HostText(host_type) \o " memory immediately.",
                         host_type)>>
       ELSE IF PercentBelow(mem_free, mem_total, MEMORY_LOW_THRESHOLD)
       THEN <<Bottleneck("memory", "high", Title(host_type) \o " memory low", evidence,
                         "Monitor " \o HostText(host_type) \o " memory.",
                         host_type)>>
       ELSE <<>>

AnalyzeHostMetrics(metrics, host_type) ==
    IF metrics = <<>> THEN <<>>
    ELSE LET latest == metrics[Len(metrics)]
         IN CpuFindings(latest, host_type) \o MemoryFindings(latest, host_type)

\* _analyze_system_metrics(metrics): the amphora rows, then the backend rows.
AnalyzeSystemMetrics(metrics) ==
    AnalyzeHostMetrics(SelectSeq(metrics, LAMBDA m : HostTypeOf(m) = "amphora"),
                       "amphora")
    \o AnalyzeHostMetrics(SelectSeq(metrics, LAMBDA m : HostTypeOf(m) = "backend"),
                          "backend")

\* _analyze_locust_stats(stats), for a non-empty list.
LocustFindings(stats) ==
    LET latest == stats[Len(stats)]
        num_requests == Get(latest, "num_requests", 0)
        num_failures == Get(latest, "num_failures", 0)
        p99 == Get(latest, "p99", 0)
    IN (IF num_requests > 0
           /\ PercentAtLeast(num_failures, num_requests, FailureRateThreshold)
        THEN <<Bottleneck("configuration", "critical", "High request failure rate",
                          [requests |-> num_requests, failures |-> num_failures,
                           failure_rate |-> <<num_failures * 100, num_requests>>],
                          "Investigate failure causes.", "load_balancer")>>
        ELSE <<>>)
       \o (IF p99 > P99Threshold
           THEN <<Bottleneck("backend", "high", "High p99 response time",
                             [p99_ms |-> p99],
                             "Backend response times are high.",
                             "backend_servers")>>
           ELSE <<>>)

\* _analyze_locust_stats(stats)
AnalyzeLocust(stats) == IF stats = <<>> THEN <<>> ELSE LocustFindings(stats)

\* severity_order
Severities == <<"critical", "high", "medium", "low">>

\* self.bottlenecks.sort(key=lambda b: severity_order[b.severity]): a stable
\* sort puts the findings of each severity together, in their former order.
RECURSIVE SortFrom(_, _)
SortFrom(findings, i) ==
    IF i > Len(Severities) THEN <<>>
    ELSE SelectSeq(findings, LAMBDA b : b.severity = Severities[i])
         \o SortFrom(findings, i + 1)

\* The same, with the findings of each severity in reverse order.
RECURSIVE Reverse(_)
Reverse(seq) == IF seq = <<>> THEN <<>> ELSE Reverse(Tail(seq)) \o <<Head(seq)>>

SortBySeverityUnstable(findings) == SortFrom(Reverse(findings), 1)

SortBySeverity(findings) == SortFrom(findings, 1)

\* `if system_metrics:` of analyze.
SystemAnalysedWithHaproxy(haproxy_stats, system_metrics) ==
    Truthy(haproxy_stats) /\ Truthy(system_metrics)

SystemAnalysed(haproxy_stats, system_metrics) == Truthy(system_metrics)

\* The findings in the order analyze() appends them.
Detect(haproxy_stats, system_metrics, locust_stats) ==
    (IF Truthy(haproxy_stats) THEN AnalyzeHaproxy(haproxy_stats.rows) ELSE <<>>)
    \o (IF SystemAnalysed(haproxy_stats, system_metrics)
        THEN AnalyzeSystemMetrics(system_metrics.rows) ELSE <<>>)
    \o (IF Truthy(locust_stats) THEN AnalyzeLocust(locust_stats.rows) ELSE <<>>)

\* by_type[name] = by_type.get(name, 0) + 1 over the findings
CountBy(findings, field) ==
    [v \in {findings[i][field] : i \in 1..Len(findings)} |->
        Cardinality({i \in 1..Len(findings) : findings[i][field] = v})]

\* get_summary()
Summary(findings) ==
    [total_bottlenecks |-> Len(findings),
     by_type |-> CountBy(findings, "type"),
     by_severity |-> CountBy(findings, "severity"),
     recommendations |-> [i \in 1..Len(findings) |-> findings[i].recommendation]]

\* ---------------------------------------------------------- detector inputs
\* Latest load-balancer rows: saturation below, at and above both thresholds
\* (and no or a zero limit), queue depths around both thresholds (and none),
\* error rates around both thresholds.
SaturationParts ==
    {[scur |-> 5], [scur |-> 5, slim |-> 0]}
    \cup {[scur |-> scur, slim |-> 100] : scur \in {69, 70, 89, 90}}

QueueParts == {EmptyMap} \cup {[qcur |-> q] : q \in {10, 11, 50, 51}}

ErrorParts == {[stot |-> 0, ereq |-> 0]} \cup {[stot |-> 100, ereq |-> e] : e \in {0, 1, 5}}

HaproxyRows == {a @@ q @@ e : a \in SaturationParts, q \in QueueParts, e \in ErrorParts}

OlderRow == [scur |-> 95, slim |-> 100, qcur |-> 60, stot |-> 100, ereq |-> 50]

HaproxyInputs ==
    {NoneList, SomeList(<<>>)}
    \cup {SomeList(<<r>>) : r \in HaproxyRows}
    \cup {SomeList(<<OlderRow, a @@ q @@ [stot |-> 0, ereq |-> 0]>>) :
            a \in SaturationParts, q \in QueueParts}

\* Series of session counts 1 and 2 around the length of the trend window,
\* with a limit that makes the higher count saturate, or with no limit.
TrendInputs ==
    {SomeList([i \in 1..n |-> [scur |-> f[i], slim |-> slim]]) :
        n \in {TrendWindow - 1, TrendWindow, TrendWindow + 1},
        f \in [1..(TrendWindow + 1) -> {1, 2}],
        slim \in {0, 2}}

\* Host rows: the load (hundredths, on one CPU) and the free memory (of 100)
\* around their thresholds.
HostRow(host_type, load, mem_free) ==
    [host_type |-> host_type, cpu_count |-> 1, load_1 |-> load,
     mem_total |-> 100, mem_free |-> mem_free]

HostRows(host_type) ==
    {HostRow(host_type, load, mem_free) :
        load \in {79, 80, 95}, mem_free \in {4, 5, 9, 10}}

\* A host row as it is read back when the producer supplied no memory
\* section: store_system_metrics wrote memory.get('total') = None and
\* memory.get('free') = None, so the row has no memory value.
HostRowNoMemory(host_type, load) ==
    [host_type |-> host_type, cpu_count |-> 1, load_1 |-> load]

SystemInputs ==
    {NoneList, SomeList(<<>>), SomeList(<<HostRow("other", 95, 4)>>)}
    \cup {SomeList(<<r>>) : r \in HostRows("amphora") \cup HostRows("backend")}
    \cup {SomeList(<<HostRow("amphora", a, 4), HostRow("backend", b, 50)>>) :
            a \in {79, 80, 95}, b \in {79, 80, 95}}
    \cup {SomeList(<<HostRow("amphora", 79, 10), HostRow("amphora", 79, 5)>>),
          SomeList(<<HostRow("amphora", 79, 4), HostRow("amphora", 79, 10)>>)}
    \cup {SomeList(<<HostRowNoMemory(h, 79)>>) : h \in {"amphora", "backend"}}

LocustInputs ==
    {NoneList, SomeList(<<>>)}
    \cup {SomeList(<<[num_requests |-> n[1], num_failures |-> n[2], p99 |-> p99]>>) :
            n \in {<<0, 0>>, <<100, 9>>, <<100, 10>>}, p99 \in {5000, 5001}}

DetUnchanged ==
    UNCHANGED <<db, col, collectors, stop_event, threads, thr, main, hist, now, rows, calls,
                orch, agg>>

\* analyze(haproxy_stats, system_metrics, locust_stats)
Analyze ==
    /\ det.pc = "ready"
    /\ LET found == Detect(det.haproxy_stats, det.system_metrics, det.locust_stats)
       IN det' = [det EXCEPT !.analyzed = TRUE, !.summarized = FALSE,
                             !.detected = found,
                             !.bottlenecks = SortBySeverity(found)]
    /\ DetUnchanged

\* get_summary()
GetSummary ==
    /\ det.pc = "ready"
    /\ det' = [det EXCEPT !.summarized = TRUE, !.summary = Summary(det.bottlenecks)]
    /\ DetUnchanged

InitDet ==
    /\ collectors = <<>>
    /\ db = NoDb
    /\ col = NoCol
    /\ stop_event = FALSE
    /\ threads = <<>>
    /\ thr = [t \in ThreadIds |-> NoThread]
    /\ main = Idle
    /\ hist = [t \in ThreadIds |-> NoHist]
    /\ now = 1
    /\ rows = <<>>
    /\ calls = NoCalls
    /\ orch = NoOrch
    /\ agg = NoAgg
    /\ \/ \E h \in HaproxyInputs, m \in SystemInputs, l \in LocustInputs :
            det = [NoDet EXCEPT !.pc = "ready", !.haproxy_stats = h,
                                !.system_metrics = m, !.locust_stats = l]
       \/ \E h \in TrendInputs :
            det = [NoDet EXCEPT !.pc = "ready", !.haproxy_stats = h]

NextDet ==
    \/ Analyze
    \/ GetSummary

SpecDet == InitDet /\ [][NextDet]_vars

\* ====================================================== detector properties
\* The latest load-balancer row of the analysed input.
LatestHaproxy == det.haproxy_stats.rows[Len(det.haproxy_stats.rows)]

\* The findings of one type and severity in the returned list.
FindingsOf(type, severity) ==
    SelectSeq(det.bottlenecks, LAMBDA b : b.type = type /\ b.severity = severity)

\* The findings with one description in the returned list.
Described(description) ==
    SelectSeq(det.bottlenecks, LAMBDA b : b.description = description)

\* C14: for a latest row with slim > 0 there is exactly one CRITICAL
\* connection-limit finding when scur/slim*100 >= 90, exactly one HIGH and no
\* CRITICAL one when it is in [70, 90), and neither below 70 or when slim <= 0;
\* the finding's evidence holds scur, slim and the percentage.
C14_SaturationRule ==
    (det.analyzed /\ Truthy(det.haproxy_stats)) =>
        LET scur == Get(LatestHaproxy, "scur", 0)
            slim == Get(LatestHaproxy, "slim", 0)
            critical == FindingsOf("connection_limit", "critical")
            high == FindingsOf("connection_limit", "high")
            evidence == [current_connections |-> scur, max_connections |-> slim,
                         saturation_percent |-> <<scur * 100, slim>>]
        IN /\ (slim > 0 /\ scur * 100 >= 90 * slim) =>
                /\ Len(critical) = 1 /\ Len(high) = 0
                /\ critical[1].evidence = evidence
           /\ (slim > 0 /\ scur * 100 >= 70 * slim /\ scur * 100 < 90 * slim) =>
                /\ Len(high) = 1 /\ Len(critical) = 0
                /\ high[1].evidence = evidence
           /\ (slim <= 0 \/ scur * 100 < 70 * slim) =>
                Len(critical) = 0 /\ Len(high) = 0

\* An analysis whose latest row sits exactly on the HIGH threshold.
C14_Witness ==
    /\ det.analyzed /\ Truthy(det.haproxy_stats)
    /\ Get(LatestHaproxy, "slim", 0) = 100
    /\ Get(LatestHaproxy, "scur", 0) = 70
    /\ Len(FindingsOf("connection_limit", "high")) = 1

\* C15: the queue rule emits exactly one finding, of type backend, with
\* severity HIGH when qcur > 50 and MEDIUM when 10 < qcur <= 50, and none when
\* qcur <= 10 or qcur is missing.
C15_QueueRule ==
    (det.analyzed /\ Truthy(det.haproxy_stats)) =>
        LET qcur == IF "qcur" \in DOMAIN LatestHaproxy THEN LatestHaproxy["qcur"] ELSE 0
            queue == Described("Requests queuing")
        IN /\ qcur > 50 =>
                Len(queue) = 1 /\ queue[1].type = "backend" /\ queue[1].severity = "high"
           /\ (qcur > 10 /\ qcur <= 50) =>
                Len(queue) = 1 /\ queue[1].type = "backend" /\ queue[1].severity = "medium"
           /\ qcur <= 10 => Len(queue) = 0

\* An analysis whose latest row has a queue of exactly 50.
C15_Witness ==
    /\ det.analyzed /\ Truthy(det.haproxy_stats)
    /\ "qcur" \in DOMAIN LatestHaproxy /\ LatestHaproxy["qcur"] = 50
    /\ Len(Described("Requests queuing")) = 1

\* C15 as stated: exactly one finding of type backend with severity HIGH when
\* qcur > 50, exactly one with severity MEDIUM when 10 < qcur <= 50.
C15_OneBackendFinding ==
    (det.analyzed /\ Truthy(det.haproxy_stats)) =>
        LET qcur == IF "qcur" \in DOMAIN LatestHaproxy THEN LatestHaproxy["qcur"] ELSE 0
        IN /\ qcur > 50 => Len(FindingsOf("backend", "high")) = 1
           /\ (qcur > 10 /\ qcur <= 50) => Len(FindingsOf("backend", "medium")) = 1
           /\ qcur <= 10 => Len(Described("Requests queuing")) = 0

\* C16: there is exactly one connection-growth finding, of severity MEDIUM,
\* when the series has at least 10 rows and the session count never decreases
\* over the trailing 10, and none otherwise.
C16_TrendRule ==
    det.analyzed =>
        LET stats == det.haproxy_stats.rows
            n == Len(stats)
            growing == /\ n >= 10
                       /\ \A i \in (n - 9)..(n - 1) :
                            Get(stats[i], "scur", 0) <= Get(stats[i + 1], "scur", 0)
            trend == Described("Connections continuously increasing")
        IN /\ growing => Len(trend) = 1 /\ trend[1].severity = "medium"
           /\ ~growing => Len(trend) = 0

\* A series of 11 rows that decreases only before the trailing 10, flat at
\* the end, with no saturation finding beside the trend finding.
C16_Witness ==
    /\ det.analyzed
    /\ Len(det.haproxy_stats.rows) = 11
    /\ det.haproxy_stats.rows[1]["scur"] > det.haproxy_stats.rows[2]["scur"]
    /\ det.haproxy_stats.rows[10]["scur"] = det.haproxy_stats.rows[11]["scur"]
    /\ Len(Described("Connections continuously increasing")) = 1
    /\ Len(FindingsOf("connection_limit", "critical")) = 0

\* The place of a severity in the order CRITICAL, HIGH, MEDIUM, LOW.
Rank(severity) == CHOOSE i \in 1..Len(Severities) : Severities[i] = severity

\* The place of a finding in the order of detection.
PosDetected(b) == CHOOSE i \in 1..Len(det.detected) : det.detected[i] = b

\* The check that detects a finding: 1 load balancer, 2 amphora hosts,
\* 3 backend hosts, 4 load generator.
DetectionStage(b) ==
    IF b.description \in {"High request failure rate", "High p99 response time"} THEN 4
    ELSE IF b.affected_component = "amphora" THEN 2
    ELSE IF b.affected_component = "backend" THEN 3
    ELSE 1

\* C17: the returned list is a permutation of the detected findings, in the
\* order CRITICAL, HIGH, MEDIUM, LOW, and two findings of one severity appear
\* in the order they were detected (load balancer, amphora hosts, backend
\* hosts, load generator).
C17_SortedBySeverityStable ==
    det.analyzed =>
        LET out == det.bottlenecks
            found == det.detected
        IN /\ Len(out) = Len(found)
           /\ Cardinality({found[i] : i \in 1..Len(found)}) = Len(found)
           /\ {out[i] : i \in 1..Len(out)} = {found[i] : i \in 1..Len(found)}
           /\ \A i \in 1..Len(out) : \A j \in (i + 1)..Len(out) :
                /\ Rank(out[i].severity) <= Rank(out[j].severity)
                /\ out[i].severity = out[j].severity =>
                     /\ PosDetected(out[i]) < PosDetected(out[j])
                     /\ DetectionStage(out[i]) <= DetectionStage(out[j])

\* An analysis in which a finding was detected before a more severe one, and
\* two findings of one severity come from different checks.
C17_Witness ==
    /\ det.analyzed
    /\ \E i \in 1..Len(det.detected) : \E j \in (i + 1)..Len(det.detected) :
         Rank(det.detected[i].severity) > Rank(det.detected[j].severity)
    /\ \E i \in 1..Len(det.bottlenecks) : \E j \in (i + 1)..Len(det.bottlenecks) :
         /\ det.bottlenecks[i].severity = det.bottlenecks[j].severity
         /\ DetectionStage(det.bottlenecks[i]) # DetectionStage(det.bottlenecks[j])

\* The findings of some detection stages, as a set.
StageFindings(stages) ==
    {det.bottlenecks[i] : i \in {k \in 1..Len(det.bottlenecks) :
                                    DetectionStage(det.bottlenecks[k]) \in stages}}

\* The elements of a sequence.
Range(seq) == {seq[i] : i \in 1..Len(seq)}

\* C18: after analyze() has returned, for any combination of absent (None) or
\* empty categories, a category that is absent or empty has contributed no
\* finding, and a category that has data has contributed exactly the findings
\* of its own rows.
C18_GapsNeverRaise ==
    det.analyzed =>
        /\ StageFindings({1}) =
             IF Truthy(det.haproxy_stats)
             THEN Range(AnalyzeHaproxy(det.haproxy_stats.rows)) ELSE {}
        /\ StageFindings({2, 3}) =
             IF Truthy(det.system_metrics)
             THEN Range(AnalyzeSystemMetrics(det.system_metrics.rows)) ELSE {}
        /\ StageFindings({4}) =
             IF Truthy(det.locust_stats)
             THEN Range(AnalyzeLocust(det.locust_stats.rows)) ELSE {}

\* An analysis with no load-balancer data (None), an empty load-generator
\* list, and host rows that yield findings.
C18_Witness ==
    /\ det.analyzed
    /\ det.haproxy_stats.none
    /\ ~det.locust_stats.none /\ det.locust_stats.rows = <<>>
    /\ Truthy(det.system_metrics)
    /\ Len(det.bottlenecks) >= 2

\* The sum of the counts of a by_type / by_severity dict.
RECURSIVE SumCounts(_)
SumCounts(counts) ==
    IF DOMAIN counts = {} THEN 0
    ELSE LET k == CHOOSE x \in DOMAIN counts : TRUE
         IN counts[k] + SumCounts([x \in DOMAIN counts \ {k} |-> counts[x]])

\* C19: a summary taken after analyze() has total_bottlenecks equal to the
\* number of findings, by_type and by_severity counts that each sum to it, and
\* no recommendation text twice.
C19_SummaryConsistent ==
    (det.analyzed /\ det.summarized) =>
        LET sm == det.summary
        IN /\ sm.total_bottlenecks = Len(det.bottlenecks)
           /\ SumCounts(sm.by_type) = sm.total_bottlenecks
           /\ SumCounts(sm.by_severity) = sm.total_bottlenecks
           /\ Len(sm.recommendations) = sm.total_bottlenecks
           /\ \A i \in 1..Len(sm.recommendations) :
                \A j \in (i + 1)..Len(sm.recommendations) :
                    sm.recommendations[i] # sm.recommendations[j]

\* A summary of an analysis that found the same CPU problem on an amphora
\* and on a backend host, among at least four findings.
C19_Witness ==
    /\ det.analyzed /\ det.summarized
    /\ det.summary.total_bottlenecks >= 4
    /\ Len(Described("Amphora CPU saturated")) = 1
    /\ Len(Described("Backend CPU saturated")) = 1

\* The collectors whose configuration has every required parameter.
WellConfigured(config) ==
    {n \in {"haproxy", "amphora_api"} : config[n] = "ok"}
    \cup {BackendName(config.backends[i]) :
            i \in {k \in 1..Len(config.backends) :
                      config.backends[k].ip /\ config.backends[k].id # ""}}

\* C20: a collector whose configuration lacks a required parameter is not
\* registered, and it does not abort the setup: when the setup is over, every
\* collector with a complete configuration is registered, and when the
\* scheduler has been started, exactly those collectors have been started.
C20_ConfigErrorsLocal ==
    /\ orch.setup # "raised"
    /\ orch.setup = "done" => orch.registered = WellConfigured(orch.config)
    /\ orch.scheduler = "started" => orch.started = WellConfigured(orch.config)

\* C21: a store callback that raises does not end collection. The step in
\* which the callback raises writes no row and leaves the thread in the
\* inter-tick wait of the except branch, not at its exit; the thread leaves
\* that wait into another collect(), unless the stop event is set; and a store
\* callback that then ends normally appends exactly the rows of its batch.
C21_StoreErrorsDoNotEndCollection ==
    [][\A t \in ThreadIds :
         /\ (thr[t].pc = "txn" /\ thr'[t] # thr[t]
               /\ hist'[t].last = "storefail") =>
              (rows' = rows /\ thr'[t].pc = "sleep")
         /\ (thr[t].pc = "sleep" /\ thr'[t] # thr[t]
               /\ hist[t].last = "storefail") =>
              (rows' = rows /\
               thr'[t].pc = IF stop_event THEN "done" ELSE "collect")
         /\ (thr[t].pc = "txn" /\ thr'[t] # thr[t] /\ hist[t].store_failed
               /\ hist'[t].last # "storefail") =>
              /\ rows' = rows \o Batch(SchedRun, thr[t].name, thr[t].ts, 0, thr[t].k)
              /\ thr'[t].pc = "sleep"]_vars

\* The only thread started wrote its one row in a tick that came after a tick
\* in which its store callback raised.
C21_Witness ==
    \E t \in ThreadIds :
        /\ Started = {t}
        /\ hist[t].store_failed
        /\ hist[t].last = "ok"
        /\ thr[t].pc = "sleep"
        /\ Len(rows) = 1
        /\ rows[1].src = thr[t].name /\ rows[1].ts >= 1

\* C22: tick pacing. The step that ends a tick, whatever its outcome, starts a
\* wait of max(0, interval - elapsed), where elapsed is the time since the
\* tick's start; the wait ends early only when the stop signal was raised; and
\* the tick that follows takes its own start time, so that tick starts are
\* max(interval, elapsed) apart and nothing is caught up.
C22_TickPacing ==
    [][\A t \in ThreadIds :
         /\ (thr[t].pc \in {"collect", "txn"} /\ thr'[t].pc = "sleep") =>
              thr'[t].wake =
                 now + Max(0, thr[t].interval - (now - thr[t].start_time))
         /\ (thr[t].pc = "sleep" /\ thr'[t].pc = "collect") =>
              /\ now = thr[t].wake \/ hist[t].woken
              /\ thr'[t].start_time = now]_vars

\* C23: every aggregate_haproxy_stats call leaves its own counters and its
\* own time in the previous-sample slot, also when it emitted no rates (first
\* call, interval not positive) or left a rate out for a negative delta. The
\* first call emits no rates; every later call with a positive interval
\* computes its rates against the counters of the call before it, so the call
\* after a counter reset computes against the values after the reset.
C23_PreviousCountersAlwaysUpdated ==
    /\ [](agg.out.src # "" => agg.prev_stats = Counters(agg.out.sample))
    /\ [][agg' # agg /\ ~CalculateRates =>
            LET current == Counters(agg'.out.sample)
                interval == now - agg.prev_timestamp
            IN /\ agg'.prev_stats = current
               /\ agg'.prev_timestamp = now
               /\ agg.prev_timestamp = 0 => agg'.out.rates = EmptyMap
               /\ (agg.prev_timestamp # 0 /\ interval <= 0) =>
                    agg'.out.rates = EmptyMap
               /\ (agg.prev_timestamp # 0 /\ interval > 0) =>
                    \A f \in AggFields :
                        IF current[f] >= agg.prev_stats[f]
                        THEN /\ PerSec(f) \in DOMAIN agg'.out.rates
                             /\ agg'.out.rates[PerSec(f)] =
                                  <<current[f] - agg.prev_stats[f], interval>>
                        ELSE PerSec(f) \notin DOMAIN agg'.out.rates]_vars

\* A call has found a counter below the one in the slot, has left that rate
\* out, and the slot holds the call's own counters and time.
C23_Witness ==
    /\ agg.out.used_prev
    /\ agg.call.st = "done"
    /\ agg.call.interval > 0
    /\ \E f \in AggFields :
         /\ agg.call.current[f] < agg.call.previous[f]
         /\ PerSec(f) \notin DOMAIN agg.out.rates
         /\ agg.prev_stats[f] = agg.call.current[f]
    /\ agg.prev_timestamp = now

\* The rows of one host type in the analysed system metrics.
HostMetrics(host_type) ==
    SelectSeq(det.system_metrics.rows, LAMBDA m : HostTypeOf(m) = host_type)

\* The memory findings of one severity for one host type in the returned list.
MemoryFindingsOf(host_type, severity) ==
    SelectSeq(det.bottlenecks,
              LAMBDA b : /\ b.type = "memory" /\ b.severity = severity
                         /\ b.affected_component = host_type)

\* C24: for each host type whose latest row has memory values, there is
\* exactly one CRITICAL memory finding for that host type when
\* mem_free/mem_total*100 < 5, exactly one HIGH and no CRITICAL one when it is
\* in [5, 10), and none at 10 or above; older rows of the host type have no say.
C24_MemoryRule ==
    (det.analyzed /\ Truthy(det.system_metrics)) =>
        \A h \in {"amphora", "backend"} :
            LET metrics == HostMetrics(h)
                latest == metrics[Len(metrics)]
                critical == MemoryFindingsOf(h, "critical")
                high == MemoryFindingsOf(h, "high")
            IN (metrics # <<>> /\ "mem_total" \in DOMAIN latest) =>
                 LET free == latest["mem_free"] * 100
                     total == latest["mem_total"]
                 IN /\ free < 5 * total => Len(critical) = 1 /\ Len(high) = 0
                    /\ (free >= 5 * total /\ free < 10 * total) =>
                         Len(high) = 1 /\ Len(critical) = 0
                    /\ free >= 10 * total => Len(critical) = 0 /\ Len(high) = 0

\* Two amphora rows were analysed: the latest has exactly 5% free, the older
\* one 10%, and there is one HIGH memory finding for the amphora.
C24_Witness ==
    /\ det.analyzed
    /\ Len(HostMetrics("amphora")) = 2
    /\ HostMetrics("amphora")[1]["mem_free"] = 10
    /\ HostMetrics("amphora")[2]["mem_free"] = 5
    /\ HostMetrics("amphora")[2]["mem_total"] = 100
    /\ Len(MemoryFindingsOf("amphora", "high")) = 1

\* C30: when the latest row of a host type has no memory values, there is no
\* memory finding for that host type.
C30_NoMemoryFindingWithoutData ==
    (det.analyzed /\ Truthy(det.system_metrics)) =>
        \A h \in {"amphora", "backend"} :
            LET metrics == HostMetrics(h)
            IN (/\ metrics # <<>>
                /\ "mem_total" \notin DOMAIN metrics[Len(metrics)]
                /\ "mem_free" \notin DOMAIN metrics[Len(metrics)]) =>
                 /\ Len(MemoryFindingsOf(h, "critical")) = 0
                 /\ Len(MemoryFindingsOf(h, "high")) = 0

\* ------------------------------------------------- scheduler, one start()
\* The scheduler as run-test.py drives it: start() is called once, on a
\* scheduler that has no thread yet, and never after a stop(). Every thread is
\* an operating-system thread that keeps being scheduled, and a collect() or
\* store callback under way returns: each thread's step is weakly fair.
\* Nothing is assumed about the caller or about the clock.
StartOnce ==
    /\ Started = {}
    /\ Start

\* setup_collectors registers the collectors before start(): the load
\* balancer's with the short interval (default 1), the others with the long
\* one (default 5).
DefaultInterval(name) == IF name = "haproxy" THEN 1 ELSE MaxInterval

SetupCollector(name) ==
    /\ Started = {}
    /\ AddCollector(name, DefaultInterval(name))

NextSchedOnce ==
    \/ \E name \in CollectorNames \ Registered : SetupCollector(name)
    \/ StartOnce
    \/ \E t \in ThreadIds : UnitStep(t)
    \/ \E timeout \in 1..MaxTimeout : StopBegin(timeout)
    \/ JoinReturn
    \/ StopReturn
    \/ Tick

SpecSchedFair ==
    /\ InitSched
    /\ [][NextSchedOnce]_vars
    /\ \A t \in ThreadIds : WF_vars(UnitStep(t))

\* Every thread that was started has left its loop.
AllExited == \A t \in ThreadIds : ~Alive(t)

\* C25: once stop() has set the stop event, and start() is not called again,
\* every thread eventually leaves its loop; a thread that is in its inter-tick
\* wait while the event is set leaves the wait before the clock moves, and
\* leaves it into its exit, not into another collect().
C25_ShutdownLiveness ==
    /\ (stop_event /\ Started # {}) ~> AllExited
    /\ [][\A t \in ThreadIds :
            (stop_event /\ thr[t].pc = "sleep") =>
               /\ now' = now
               /\ thr'[t] # thr[t] => thr'[t].pc = "done"]_vars

\* Both threads have left their loops after stop(): one was waiting between
\* ticks when the event was set and did no collect() after it, the other was
\* inside collect() and finished that collect() and its store callback.
C25_Witness ==
    /\ stop_event
    /\ Cardinality(Started) = 2
    /\ AllExited
    /\ \E t, u \in ThreadIds :
         /\ hist[t].collects = 0 /\ hist[t].stores = 0 /\ hist[t].last # "none"
         /\ hist[u].collects = 1 /\ hist[u].stores = 1

\* ======================================================= the whole database
\* MetricsStorage as one database: the test_runs table, the sample rows, and
\* every operation of the class as one transaction (create_test_run,
\* complete_test_run, store_*, the readers, and the schema set-up that every
\* MetricsStorage(db_path) runs again on the same file).
RunNames == {"smoke", "soak"}

\* The arguments that go with a name: `json.dumps(config) if config else
\* None`, and the notes; one run has neither.
ConfigText(name) == IF name = "smoke" THEN "" ELSE "{users: 10}"

NotesText(name) == IF name = "smoke" THEN "" ELSE "baseline"

\* A test_runs row as create_test_run inserts it: end_time NULL (the empty
\* text), status by the column's default.
TestRun(id, name, start_time, config, notes) ==
    [id |-> id, name |-> name, start_time |-> start_time, end_time |-> <<>>,
     config |-> config, notes |-> notes, status |-> "running"]

RunStatuses == {"completed", "failed"}

DbUnchanged ==
    UNCHANGED <<collectors, stop_event, threads, thr, main, hist, calls, orch,
                agg, det, col>>

Op(name, run_id, result) == [name |-> name, run_id |-> run_id, result |-> result]

\* MetricsStorage(db_path) on the database file: _init_schema, whose
\* statements are all CREATE TABLE / INDEX IF NOT EXISTS.
InitSchema ==
    /\ db' = [db EXCEPT !.op = Op("init_schema", 0, <<>>)]
    /\ UNCHANGED <<rows, now>>
    /\ DbUnchanged

\* create_test_run(name, config, notes): one INSERT; AUTOINCREMENT gives the
\* next id, which is returned.
CreateRun(name) ==
    /\ Len(db.test_runs) < MaxRuns
    /\ LET id == Len(db.test_runs) + 1
       IN db' = [test_runs |-> Append(db.test_runs,
                                      TestRun(id, name, IsoFormat(now),
                                              ConfigText(name), NotesText(name))),
                 op |-> Op("create_test_run", id, <<>>)]
    /\ UNCHANGED <<rows, now>>
    /\ DbUnchanged

\* `WHERE id = ?` of complete_test_run.
WhereAnyId(run, run_id) == TRUE

WhereId(run, run_id) == run.id = run_id

\* complete_test_run(run_id, status):
\* UPDATE test_runs SET end_time = ?, status = ? WHERE id = ?
CompleteRun(run_id, status) ==
    /\ db' = [test_runs |->
                 [i \in DOMAIN db.test_runs |->
                    IF WhereId(db.test_runs[i], run_id)
                    THEN [db.test_runs[i] EXCEPT !.end_time = IsoFormat(now),
                                                 !.status = status]
                    ELSE db.test_runs[i]],
              op |-> Op("complete_test_run", run_id, <<>>)]
    /\ UNCHANGED <<rows, now>>
    /\ DbUnchanged

\* store_haproxy_stats / store_system_metrics(run_id, ...): a call that
\* inserts one row and commits. No foreign key is enforced (sqlite's default),
\* so any run id is taken.
StoreSamples(run_id, src) ==
    /\ Len(rows) < MaxRows
    /\ rows' = rows \o Batch(run_id, src, now, 0, 1)
    /\ db' = [db EXCEPT !.op = Op("store", run_id, <<>>)]
    /\ UNCHANGED now
    /\ DbUnchanged

\* get_test_run(run_id): SELECT * FROM test_runs WHERE id = ?
GetTestRun(run_id) ==
    /\ db' = [db EXCEPT !.op = Op("get_test_run", run_id,
                                  SelectSeq(db.test_runs,
                                            LAMBDA r : r.id = run_id))]
    /\ UNCHANGED <<rows, now>>
    /\ DbUnchanged

\* list_test_runs(): SELECT * FROM test_runs ORDER BY start_time DESC LIMIT 20.
\* Runs of equal start_time come in an order sqlite does not promise: either.
ListTestRuns ==
    /\ \E order \in [1..Len(db.test_runs) -> 1..Len(db.test_runs)] :
         /\ \A i, j \in 1..Len(db.test_runs) : i # j => order[i] # order[j]
         /\ \A i, j \in 1..Len(db.test_runs) :
              i < j => TextLeq(db.test_runs[order[j]].start_time,
                               db.test_runs[order[i]].start_time)
         /\ db' = [db EXCEPT !.op = Op("list_test_runs", 0,
                                       [i \in 1..Len(db.test_runs) |->
                                          db.test_runs[order[i]]])]
    /\ UNCHANGED <<rows, now>>
    /\ DbUnchanged

\* get_haproxy_stats / get_system_metrics(run_id), and export_to_json, which
\* calls the readers and writes a file beside the database.
GetRows(table, run_id) ==
    /\ db' = [db EXCEPT !.op = Op("get_" \o table, run_id,
                                  GetSamples(table, run_id))]
    /\ UNCHANGED <<rows, now>>
    /\ DbUnchanged

TickDb ==
    /\ now < StoreEpoch + 1
    /\ now' = now + 1
    /\ UNCHANGED <<rows, db>>
    /\ DbUnchanged

InitDb ==
    /\ collectors = <<>>
    /\ stop_event = FALSE
    /\ threads = <<>>
    /\ thr = [t \in ThreadIds |-> NoThread]
    /\ main = Idle
    /\ hist = [t \in ThreadIds |-> NoHist]
    /\ now = StoreEpoch
    /\ rows = <<>>
    /\ calls = NoCalls
    /\ orch = NoOrch
    /\ agg = NoAgg
    /\ det = NoDet
    /\ col = NoCol
    /\ db = [NoDb EXCEPT !.op = Op("init_schema", 0, <<>>)]

NextDb ==
    \/ InitSchema
    \/ \E name \in RunNames : CreateRun(name)
    \/ \E run_id \in 1..MaxRuns, status \in RunStatuses : CompleteRun(run_id, status)
    \/ \E run_id \in 1..MaxRuns, src \in Sources : StoreSamples(run_id, src)
    \/ \E run_id \in 1..MaxRuns : GetTestRun(run_id)
    \/ ListTestRuns
    \/ \E table \in Tables, run_id \in 1..MaxRuns : GetRows(table, run_id)
    \/ TickDb

SpecDb == InitDb /\ [][NextDb]_vars

\* C26: the store is append-only. Every step keeps the sample rows it found,
\* in place and unchanged, and keeps every test run with its id, name, start
\* time, configuration and notes; a test run changes only in a
\* complete_test_run call for its own id, and only in end_time and status.
C26_AppendOnly ==
    [][/\ Len(rows') >= Len(rows)
       /\ SubSeq(rows', 1, Len(rows)) = rows
       /\ Len(db'.test_runs) >= Len(db.test_runs)
       /\ \A i \in 1..Len(db.test_runs) :
            LET old == db.test_runs[i]
                new == db'.test_runs[i]
            IN /\ new.id = old.id
               /\ new.name = old.name
               /\ new.start_time = old.start_time
               /\ new.config = old.config
               /\ new.notes = old.notes
               /\ new # old =>
                    /\ db'.op.name = "complete_test_run"
                    /\ db'.op.run_id = old.id]_vars

\* complete_test_run(2, 'failed') was the last operation: run 2 has its end
\* time and status, run 1 is still running with no end time, and sample rows
\* of both runs are in the store.
C26_Witness ==
    /\ db.op.name = "complete_test_run" /\ db.op.run_id = 2
    /\ Len(db.test_runs) = 2
    /\ db.test_runs[2].status = "failed" /\ db.test_runs[2].end_time # <<>>
    /\ db.test_runs[1].status = "running" /\ db.test_runs[1].end_time = <<>>
    /\ \E i, j \in 1..Len(rows) : rows[i].run = 1 /\ rows[j].run = 2

\* ==================================================== SSH-based collectors
\* HAProxyStatsCollector and SystemMetricsCollector hold one paramiko client
\* in _ssh_client: "none" (None), "live" (connected), "dead" (a client whose
\* connection is gone: every exec_command on it raises, and nothing but a new
\* connect() brings a connection back). collect() runs its commands through
\* _execute_command inside `try ... except Exception: return {'error': ...}`.
ColUnchanged ==
    UNCHANGED <<collectors, stop_event, threads, thr, main, hist, now, rows,
                calls, orch, agg, det, db>>

\* collect() is called: the first command enters _execute_command, which
\* calls connect() only `if self._ssh_client is None`.
CollectBegin(c) ==
    /\ col[c].pc = "idle"
    /\ col' = [col EXCEPT ![c].pc = IF col[c].client = "none"
                                    THEN "connect" ELSE "exec",
                          ![c].connected = FALSE,
                          ![c].up_all = col[c].up]
    /\ ColUnchanged

\* connect() with no client: a new SSHClient connects; on failure
\* _ssh_client is set back to None and the exception, re-raised, ends
\* collect() in its except branch with an error payload.
Connect(c) ==
    /\ col[c].pc = "connect"
    /\ col' = [col EXCEPT ![c] =
                 IF col[c].up
                 THEN [@ EXCEPT !.client = "live", !.pc = "exec",
                                !.connected = TRUE]
                 ELSE [@ EXCEPT !.client = "none", !.pc = "idle",
                                !.connected = TRUE, !.last = "error",
                                !.up_fails = 0]]
    /\ ColUnchanged

\* The commands run on the client: on a live connection to a reachable
\* source they succeed and collect() returns its payload; otherwise
\* exec_command raises and the connection is gone. The except branch of
\* _execute_command logs and re-raises, so the client stays in _ssh_client,
\* and collect() returns an error payload.
Exec(c) ==
    /\ col[c].pc = "exec"
    /\ col' = [col EXCEPT ![c] =
                 IF col[c].client = "live" /\ col[c].up
                 THEN [@ EXCEPT !.pc = "idle", !.last = "ok", !.up_fails = 0]
                 ELSE [@ EXCEPT !.pc = "idle", !.last = "error",
                                !.client = "dead",
                                !.up_fails = IF col[c].up_all
                                             THEN Min(@ + 1, 2) ELSE 0]]
    /\ ColUnchanged

\* The source becomes unreachable (host down, network cut); an open
\* connection is lost with it, or survives a short cut.
SourceDown(c, lost) ==
    /\ col[c].up
    /\ col' = [col EXCEPT ![c].up = FALSE, ![c].up_all = FALSE,
                          ![c].up_fails = 0,
                          ![c].client = IF lost /\ @ = "live" THEN "dead" ELSE @]
    /\ ColUnchanged

\* The source is reachable again.
SourceUp(c) ==
    /\ ~col[c].up
    /\ col' = [col EXCEPT ![c].up = TRUE]
    /\ ColUnchanged

InitCol ==
    /\ collectors = <<>>
    /\ stop_event = FALSE
    /\ threads = <<>>
    /\ thr = [t \in ThreadIds |-> NoThread]
    /\ main = Idle
    /\ hist = [t \in ThreadIds |-> NoHist]
    /\ now = 0
    /\ rows = <<>>
    /\ calls = NoCalls
    /\ orch = NoOrch
    /\ agg = NoAgg
    /\ det = NoDet
    /\ db = NoDb
    /\ col = NoCol

NextCol ==
    \/ \E c \in SshCollectors : CollectBegin(c)
    \/ \E c \in SshCollectors : Connect(c)
    \/ \E c \in SshCollectors : Exec(c)
    \/ \E c \in SshCollectors, lost \in BOOLEAN : SourceDown(c, lost)
    \/ \E c \in SshCollectors : SourceUp(c)

SpecCol == InitCol /\ [][NextCol]_vars

\* C27: collect() never raises; a collect() that follows a failed one calls
\* connect() for a new connection instead of running on the client of the
\* failure; and of two collect() calls in a row made while the source is
\* reachable, at most the first fails.
C27_AdapterRecovery ==
    /\ [](\A c \in SshCollectors : col[c].last # "raised")
    /\ [][\A c \in SshCollectors :
            (col[c].pc = "idle" /\ col'[c].pc # "idle" /\ col[c].last = "error") =>
               col'[c].pc = "connect"]_vars
    /\ [](\A c \in SshCollectors : col[c].up_fails <= 1)

\* C28: at most one thread per collector name is alive at any time, and a
\* thread whose wait was ended by the stop signal leaves its loop: it does not
\* go on to another collect().
C28_SingleUnitPerCollector ==
    /\ [](\A t, u \in ThreadIds :
            (Alive(t) /\ Alive(u) /\ thr[t].name = thr[u].name) => t = u)
    /\ [][\A t \in ThreadIds :
            (thr[t].pc = "sleep" /\ hist[t].woken /\ thr'[t] # thr[t]) =>
               thr'[t].pc = "done"]_vars

\* C29: on every path of run() after scheduler.start(), scheduler.stop() is
\* called before the run's status becomes terminal and before run() is over:
\* the status is never terminal, and run() has never returned, while the
\* scheduler is still started.
C29_CollectorsStoppedOnEveryExit ==
    orch.scheduler = "started" =>
        /\ orch.status \notin TerminalStatuses
        /\ orch.pc # "returned"

====
